---- MODULE Spec2Model ----
(***************************************************************************)
(* Budgeted incremental shading engine of PixelRasterizer.                 *)
(*                                                                         *)
(* Two programs share one scheduler design and are modelled side by side:  *)
(*   variant = "image" : src/src/client/main.client.ts (EditableImage)     *)
(*   variant = "part"  : src/src/server/main.server.ts (grid of Parts)     *)
(* The variable `variant` is chosen in Init and never changes.             *)
(*                                                                         *)
(* The Heartbeat handler is single threaded and runs to completion; it is  *)
(* modelled by a program counter pc: "idle" (between callbacks), "loop"    *)
(* (inside the for loop, one iteration per step) and "flush" (the flush    *)
(* call that ends the tick).  The scene and the sun only change while the  *)
(* handler is idle.                                                        *)
(*                                                                         *)
(* Units.  Color3 channels (0..1) are integers in units of 1/5100, so that *)
(* n/255 is 20n units and the 0.01 colour tolerance is 51 units.  Byte     *)
(* scale values of the image variant are in thousandths of a byte.         *)
(* Transparency is in thousandths.  Vector3 coordinates are in units of    *)
(* 1e-4.  Time is in units of 1/60 s.  Floating point rounding is modelled  *)
(* where the code compares a computed float for exact equality (the        *)
(* client's light test, see UnitDotIsOne) and not elsewhere.               *)
(***************************************************************************)
EXTENDS Integers, Sequences, FiniteSets, TLC

(***************************************************************************)
(* Bounds.  The sample counts, batch sizes, forced-pass caps, shadow-ray   *)
(* limits and the force interval of the programs (6000/400/500/200/400/10  *)
(* and 4480/200/500/500/200/10) are scaled down; the scaled values keep    *)
(* the order relations of the originals that the handlers depend on:       *)
(*   image: cap < count, forced limit < cap, rotating limit = batch        *)
(*   part : cap < count, forced limit = cap, rotating limit = batch        *)
(***************************************************************************)
TOTAL_PIXELS == 4
BATCH_SIZE == 2
ImageMaxForceUpdates == 3
ImageForcedLimit == 1
ImageRotatingLimit == 2

PartCount == 5
batchSize == 2
PartMaxForceUpdates == 3
PartForcedLimit == 3
PartRotatingLimit == 2

FORCE_UPDATE_INT == 4
\* Processed ticks explored (globalFrameCount grows without bound in the code).
MaxFrames == 9
\* Largest delta time of one Heartbeat callback, in 1/60 s.
MaxDT == 2

(***************************************************************************)
(* Program constants.                                                      *)
(***************************************************************************)
\* if (refresh_timer < 1/20) return;   1/20 s = 3/60 s
TickStep == 3
\* A blend that moves the surface colour 40% of the way to the tint.
blendAmount_Forty == 10 - 6
\* const blendAmount = 0.6, in tenths
blendAmount == 6
\* The shadow-ray limits as written in the two handlers.
ClientForcedShadowLimit == 200
ClientRotatingShadowLimit == 400
ServerForcedShadowLimit == 500
ServerRotatingShadowLimit == 200
\* fuzzyEqual's epsilon 0.001 in units of 1e-4
PositionEpsilon == 10
\* fuzzyColorEq's epsilon 0.01 and bufferPartUpdate's 0.01, in units of 1/5100
ColorEpsilon == 51
\* bufferPartUpdate's transparency tolerance 0.001, in thousandths
TransparencyEpsilon == 1
\* SHADOW_TRANSPARENCY = 0.01 and LIGHT_TRANSPARENCY = 0, in thousandths
SHADOW_TRANSPARENCY == 10
LIGHT_TRANSPARENCY == 0

Variants == {"image", "part"}

Min(a, b) == IF a < b THEN a ELSE b
Abs(x) == IF x < 0 THEN -x ELSE x

(***************************************************************************)
(* The host scene: what Workspace.Raycast and Lighting.GetSunDirection     *)
(* return.  A scene is one of a few fixed arrangements; the environment    *)
(* switches between them while the handler is idle.                        *)
(***************************************************************************)
Scenes == {"s1", "s2", "s3"}
\* The sun straight overhead, on the diagonal (1, 1, 0) / sqrt 2, and within
\* fuzzyEqual's epsilon of that diagonal.
LightDirections == {<<0, 10000, 0>>, <<7071, 7071, 0>>, <<7077, 7065, 0>>}

\* Scenes in which every sample sees one surface C, told apart by the
\* Color3 that rayResult.Instance.Color returns: two colours inside 0..1,
\* one with channels below 0 (-2, -1, 0) and one with channels above 1
\* (3, 2, 1).
SurfaceScenes == {"dark", "pale", "negative", "bright"}
SurfaceColor(sc) ==
    CASE sc = "dark" -> <<0, 2500, 5100>>
      [] sc = "pale" -> <<4000, 1000, 3000>>
      [] sc = "negative" -> <<-10200, -5100, 0>>
      [] sc = "bright" -> <<15300, 10200, 5100>>

\* rayResult === undefined: rayResult?.Instance, ?.Position and ?.Instance?.Material
\* are all undefined ("undefined" / the empty tuple).
NoHit == [Instance |-> "undefined", Position |-> <<>>, Material |-> "undefined", Color |-> <<>>]

\* rayResult of the primary ray of sample s.
\*   s1: every sample sees wall A.
\*   s2: wall A has moved by more than the positional tolerance in front of
\*       the even samples (same instance, same material).
\*   s3: the even samples see the sky, the odd ones a metal block B whose
\*       colour is within the colour tolerance of A's shading.
RayResult(sc, s) ==
    LET wallA(z) == [Instance |-> "A", Position |-> <<0, 0, z>>,
                     Material |-> "Plastic", Color |-> <<2500, 2500, 2500>>]
        blockB   == [Instance |-> "B", Position |-> <<0, 0, 50000>>,
                     Material |-> "Metal", Color |-> <<2550, 2550, 2550>>]
    IN  CASE sc = "s1" -> wallA(50000)
          [] sc = "s2" -> IF s % 2 = 0 THEN wallA(50020) ELSE wallA(50000)
          [] sc = "s3" -> IF s % 2 = 0 THEN NoHit ELSE blockB
          [] sc \in SurfaceScenes ->
                [Instance |-> "C", Position |-> <<0, 0, 50000>>,
                 Material |-> "Plastic", Color |-> SurfaceColor(sc)]

\* Whether the shadow ray from the hit point of sample s towards the light
\* finds an occluder.
\*   s1: a roof occludes the overhead sun only.
\*   s2: the odd samples are occluded from every direction.
\*   s3: nothing is occluded.
\*   surface scenes: the odd samples are occluded from every direction.
ShadowRayHits(sc, l, s) ==
    CASE sc = "s1" -> l[1] = 0
      [] sc = "s2" -> s % 2 = 1
      [] sc = "s3" -> FALSE
      [] sc \in SurfaceScenes -> s % 2 = 1

VARIABLES
    variant,            \* which program runs
    scene, sun,         \* the host scene and Lighting.GetSunDirection()
    pixelData,          \* image: LightingPixel[] caches
    trackedParts,       \* part: allTrackedParts[0] caches
    index,              \* pixelIndex (client) / index (server)
    globalFrameCount, refresh_timer, shadowLimiter,
    pc, i,              \* position in the handler, loop variable
    lightDirection,     \* the handler's const lightDirection
    isForceUpdateFrame, \* the handler's const isForceUpdateFrame
    pixelBuffer,        \* image: the RGBA byte buffer
    editableImage,      \* image: the presentation surface
    updateBuffer,       \* part: the 20-byte records
    partIndexMap,       \* part: Map<BasePart,number>
    dirtyParts,         \* part: Set<number>
    nextPartIndex,
    partAppearance,     \* part: Color/Transparency/Material of each Part
    evalLog,            \* history: the evaluations of the current tick
    index0,             \* history: index when the current tick began
    history,            \* history: the last completed ticks
    surfaceCalls,       \* observation: calls on the surface made by the flush
                        \* of the current tick (0 until it has run)
    flushes,            \* observation: flush calls since the last tick began
    seen                \* history: samples evaluated in the current run of
                        \* rotating ticks since the scene or the sun last changed

schedVars == <<index, globalFrameCount, refresh_timer, shadowLimiter, pc, i,
               lightDirection, isForceUpdateFrame>>
envVars == <<variant, scene, sun>>
cacheVars == <<pixelData, trackedParts>>
imageSinkVars == <<pixelBuffer, editableImage>>
partSinkVars == <<updateBuffer, partIndexMap, dirtyParts, nextPartIndex, partAppearance>>
histVars == <<evalLog, index0, history>>
obsVars == <<surfaceCalls, flushes, seen>>
vars == <<envVars, cacheVars, schedVars, imageSinkVars, partSinkVars, histVars, obsVars>>

\* Per-variant configuration.
SampleCount == IF variant = "image" THEN TOTAL_PIXELS ELSE PartCount
BatchSize == IF variant = "image" THEN BATCH_SIZE ELSE batchSize
maxForceUpdates == IF variant = "image" THEN ImageMaxForceUpdates ELSE PartMaxForceUpdates
shadowLimit(forced) ==
    IF variant = "image"
    THEN (IF forced THEN ImageForcedLimit ELSE ImageRotatingLimit)
    ELSE (IF forced THEN PartForcedLimit ELSE PartRotatingLimit)
Samples == 0 .. (SampleCount - 1)

\* The cache fields as initializePixelData / rayModel create them.
EmptyCache == [lastHitInstance |-> "undefined", lastHitPosition |-> <<>>,
               lastHitMaterial |-> "undefined", lastLightDirection |-> <<>>]

(***************************************************************************)
(* Pure helpers of the two programs.                                       *)
(***************************************************************************)
\* function fuzzyEqual(a, b, epsilon = 0.001)
fuzzyEqual(a, b) ==
    /\ Abs(a[1] - b[1]) < PositionEpsilon
    /\ Abs(a[2] - b[2]) < PositionEpsilon
    /\ Abs(a[3] - b[3]) < PositionEpsilon

\* function fuzzyColorEq(a, b, epsilon = 0.01)
fuzzyColorEq(a, b) ==
    /\ Abs(a[1] - b[1]) < ColorEpsilon
    /\ Abs(a[2] - b[2]) < ColorEpsilon
    /\ Abs(a[3] - b[3]) < ColorEpsilon

Dot(a, b) == a[1] * b[1] + a[2] * b[2] + a[3] * b[3]
Cross(a, b) == <<a[2] * b[3] - a[3] * b[2], a[3] * b[1] - a[1] * b[3],
                 a[1] * b[2] - a[2] * b[1]>>
\* Whether the single precision value a.Unit.Dot(a.Unit) is exactly 1.  It is
\* for a vector along an axis (one component 1, the others 0).  It is not
\* for the two diagonal directions of LightDirections: the floats next to
\* 1/sqrt 2 are 0.70710677 and 0.70710683, whose squares add up to
\* 0.99999994 and 1.0000001, and the normalised <<0.7077, 0.7065, 0>> gives
\* 1.0000001.
SelfDotIsOne(a) == Cardinality({c \in 1..3 : a[c] # 0}) = 1
\* a.Unit.Dot(b.Unit) === 1 : the two directions are parallel, point the
\* same way, and the rounded dot product of the unit vector with itself is 1.
UnitDotIsOne(a, b) == Dot(a, b) > 0 /\ Cross(a, b) = <<0, 0, 0>> /\ SelfDotIsOne(a)

\* buffer.writeu8 keeps the low 8 bits of an out-of-range value.
WriteU8(x) == x % 256
\* math.floor of a value given in thousandths.
Floor(x) == x \div 1000

\* Color3.fromRGB(r, g, b) of byte-scale arguments given in 1/5100 * 255 units.
FromRGB(c) == <<c[1] \div 255, c[2] \div 255, c[3] \div 255>>

\* Predefined colours, byte scale.
SHADOW_COLOR == <<50, 50, 100>>
LIGHT_COLOR == <<255, 255, 200>>
SKYBOX_COLOR == <<51, 168, 247>>
skybox == TRUE

\* materialToNumber: material.Value || 0
materialToNumber(m) ==
    CASE m = "Plastic" -> 256
      [] m = "SmoothPlastic" -> 272
      [] m = "Metal" -> 1088
      [] OTHER -> 0
\* numberToMaterial: the enum item with that value, else SmoothPlastic
numberToMaterial(n) ==
    CASE n = 256 -> "Plastic"
      [] n = 272 -> "SmoothPlastic"
      [] n = 1088 -> "Metal"
      [] OTHER -> "SmoothPlastic"

(***************************************************************************)
(* isInShadow: the budget check, the counter and the shadow ray.           *)
(* Returns the boolean result, the new value of shadowLimiter and whether  *)
(* a ray was cast.                                                         *)
(***************************************************************************)
isInShadow_NoBudget(limiter, maxShadowRays, sc, l, s) ==
    [result |-> ShadowRayHits(sc, l, s), shadowLimiter |-> limiter + 1, rayCast |-> TRUE]

isInShadow_CountsDenied(limiter, maxShadowRays, sc, l, s) ==
    IF limiter >= maxShadowRays
    THEN [result |-> FALSE, shadowLimiter |-> limiter + 1, rayCast |-> FALSE]
    ELSE [result |-> ShadowRayHits(sc, l, s), shadowLimiter |-> limiter + 1,
          rayCast |-> TRUE]

isInShadow(limiter, maxShadowRays, sc, l, s) ==
    IF limiter >= maxShadowRays
    THEN [result |-> FALSE, shadowLimiter |-> limiter, rayCast |-> FALSE]
    ELSE [result |-> ShadowRayHits(sc, l, s), shadowLimiter |-> limiter + 1,
          rayCast |-> TRUE]

(***************************************************************************)
(* Shading.                                                                *)
(***************************************************************************)
\* updatePixel's three branches; the result is in thousandths of a byte.
\* originalColor.R * 255 of a channel k (1/5100 units) is 50k thousandths.
PixelShade(rayResult, inShadow) ==
    IF rayResult # NoHit
    THEN IF inShadow
         THEN [c \in 1..3 |->
                 (50 * rayResult.Color[c] * (10 - blendAmount)
                    + 1000 * SHADOW_COLOR[c] * blendAmount) \div 10]
         ELSE [c \in 1..3 |->
                 Min(255000, (50 * rayResult.Color[c] * 3
                                + 1000 * LIGHT_COLOR[c] * 4) \div 10)]
    ELSE [c \in 1..3 |->
            (1000 * SKYBOX_COLOR[c] * (10 - 6) + 1000 * LIGHT_COLOR[c] * 6) \div 10]

\* updatePart's branches; colour in 1/5100 units (a byte n is 20n units).
PartShade(rayResult, inShadow, part) ==
    IF rayResult # NoHit
    THEN IF inShadow
         THEN [color |-> [c \in 1..3 |->
                            (rayResult.Color[c] * (10 - blendAmount)
                               + 20 * SHADOW_COLOR[c] * blendAmount) \div 10],
               transparency |-> SHADOW_TRANSPARENCY,
               material |-> rayResult.Material]
         ELSE [color |-> FromRGB([c \in 1..3 |->
                            255 * Min(5100, (rayResult.Color[c] * 3
                                               + 20 * LIGHT_COLOR[c] * 4) \div 10)]),
               transparency |-> LIGHT_TRANSPARENCY,
               material |-> rayResult.Material]
    ELSE IF skybox
         THEN [color |-> FromRGB([c \in 1..3 |->
                            255 * ((20 * SKYBOX_COLOR[c] * (10 - 6)
                                      + 20 * LIGHT_COLOR[c] * 6) \div 10)]),
               transparency |-> 0,
               material |-> "SmoothPlastic"]
         ELSE [color |-> part.Color, transparency |-> 1000, material |-> part.Material]

(***************************************************************************)
(* Change detection.                                                       *)
(***************************************************************************)
\* updatePixel lines 163-167
PixelSceneChanged(rayResult, pixel) ==
    \/ rayResult.Instance # pixel.lastHitInstance
    \/ rayResult.Material # pixel.lastHitMaterial
PixelLightChanged_SkipsUnset(l, pixel) ==
    /\ pixel.lastLightDirection # <<>>
    /\ ~UnitDotIsOne(pixel.lastLightDirection, l)
PixelLightChanged(l, pixel) ==
    \/ pixel.lastLightDirection = <<>>
    \/ ~UnitDotIsOne(pixel.lastLightDirection, l)

\* updatePart lines 260-266
PartSceneChanged(rayResult, data) ==
    \/ rayResult.Instance # data.lastHitInstance
    \/ (/\ rayResult.Position # <<>> /\ data.lastHitPosition # <<>>
        /\ ~fuzzyEqual(rayResult.Position, data.lastHitPosition))
    \/ (rayResult.Position # <<>> /\ data.lastHitPosition = <<>>)
    \/ (rayResult.Position = <<>> /\ data.lastHitPosition # <<>>)
    \/ rayResult.Material # data.lastHitMaterial
PartLightChanged(l, data) ==
    \/ data.lastLightDirection = <<>>
    \/ ~fuzzyEqual(l, data.lastLightDirection)

\* The cache after an evaluation (both programs write the same four fields).
UpdatedCache(rayResult, l) ==
    [lastHitInstance |-> rayResult.Instance, lastHitPosition |-> rayResult.Position,
     lastHitMaterial |-> rayResult.Material, lastLightDirection |-> l]

(***************************************************************************)
(* Dense sink (image).                                                     *)
(***************************************************************************)
setPixelColor_WritesThrough(pixelIdx, rgb) ==
    /\ pixelBuffer' = [pixelBuffer EXCEPT ![pixelIdx] =
                         <<WriteU8(Floor(rgb[1])), WriteU8(Floor(rgb[2])),
                           WriteU8(Floor(rgb[3])), WriteU8(255)>>]
    /\ editableImage' = pixelBuffer'

\* setPixelColor(pixelIndex, r, g, b, a = 255); r, g, b in thousandths of a byte
setPixelColor(pixelIdx, rgb) ==
    /\ pixelBuffer' = [pixelBuffer EXCEPT ![pixelIdx] =
                         <<WriteU8(Floor(rgb[1])), WriteU8(Floor(rgb[2])),
                           WriteU8(Floor(rgb[3])), WriteU8(255)>>]
    /\ UNCHANGED editableImage

\* A flush that uploads the buffer and then clears it.
flushPixelUpdates_ClearsBuffer ==
    /\ editableImage' = pixelBuffer
    /\ pixelBuffer' = [s \in DOMAIN pixelBuffer |-> <<0, 0, 0, 0>>]
    /\ surfaceCalls' = 1

\* editableImage.WritePixelsBuffer(0, size, pixelBuffer): one call, always
flushPixelUpdates ==
    /\ editableImage' = pixelBuffer
    /\ UNCHANGED pixelBuffer
    /\ surfaceCalls' = 1

(***************************************************************************)
(* Sparse sink (part).                                                     *)
(***************************************************************************)
\* getPartIndex: the index the part has, or the next free one
getPartIndex(part) ==
    IF part \in DOMAIN partIndexMap THEN partIndexMap[part] ELSE nextPartIndex

bufferPartUpdate_IgnoresMaterial(part, color, transparency, material) ==
    LET partIndex == getPartIndex(part)
        current == updateBuffer[partIndex]
        materialNum == materialToNumber(material)
        needsUpdate == \/ Abs(current.R - color[1]) > ColorEpsilon
                       \/ Abs(current.G - color[2]) > ColorEpsilon
                       \/ Abs(current.B - color[3]) > ColorEpsilon
                       \/ Abs(current.A - transparency) > TransparencyEpsilon
    IN  /\ IF part \in DOMAIN partIndexMap
           THEN UNCHANGED <<partIndexMap, nextPartIndex>>
           ELSE /\ partIndexMap' = partIndexMap @@ (part :> nextPartIndex)
                /\ nextPartIndex' = nextPartIndex + 1
        /\ IF needsUpdate
           THEN /\ updateBuffer' = [updateBuffer EXCEPT ![partIndex] =
                                      [R |-> color[1], G |-> color[2], B |-> color[3],
                                       A |-> transparency, Mat |-> materialNum]]
                /\ dirtyParts' = dirtyParts \cup {partIndex}
           ELSE UNCHANGED <<updateBuffer, dirtyParts>>
        /\ UNCHANGED partAppearance

bufferPartUpdate(part, color, transparency, material) ==
    LET partIndex == getPartIndex(part)
        current == updateBuffer[partIndex]
        materialNum == materialToNumber(material)
        needsUpdate == \/ Abs(current.R - color[1]) > ColorEpsilon
                       \/ Abs(current.G - color[2]) > ColorEpsilon
                       \/ Abs(current.B - color[3]) > ColorEpsilon
                       \/ Abs(current.A - transparency) > TransparencyEpsilon
                       \/ current.Mat # materialNum
    IN  /\ IF part \in DOMAIN partIndexMap
           THEN UNCHANGED <<partIndexMap, nextPartIndex>>
           ELSE /\ partIndexMap' = partIndexMap @@ (part :> nextPartIndex)
                /\ nextPartIndex' = nextPartIndex + 1
        /\ IF needsUpdate
           THEN /\ updateBuffer' = [updateBuffer EXCEPT ![partIndex] =
                                      [R |-> color[1], G |-> color[2], B |-> color[3],
                                       A |-> transparency, Mat |-> materialNum]]
                /\ dirtyParts' = dirtyParts \cup {partIndex}
           ELSE UNCHANGED <<updateBuffer, dirtyParts>>
        /\ UNCHANGED partAppearance

AppliedAppearance_StaleMaterial(old, rec) ==
    LET newColor == <<rec.R, rec.G, rec.B>>
    IN  [Color |-> IF ~fuzzyColorEq(old.Color, newColor) THEN newColor ELSE old.Color,
         Transparency |-> IF old.Transparency # rec.A THEN rec.A ELSE old.Transparency,
         Material |-> old.Material]

\* What flushBufferedUpdates leaves on a part whose index is dirty.
AppliedAppearance(old, rec) ==
    LET newColor == <<rec.R, rec.G, rec.B>>
        newMaterial == numberToMaterial(rec.Mat)
    IN  [Color |-> IF ~fuzzyColorEq(old.Color, newColor) THEN newColor ELSE old.Color,
         Transparency |-> IF old.Transparency # rec.A THEN rec.A ELSE old.Transparency,
         Material |-> IF old.Material # newMaterial THEN newMaterial ELSE old.Material]

\* The property assignments (targetPart.Color = ..., .Transparency = ...,
\* .Material = ...) a flush makes: one for each property of a dirty part
\* that the flush changes.
PartAssignments(after) ==
    Cardinality({pf \in (DOMAIN partAppearance) \X {"Color", "Transparency", "Material"} :
                   after[pf[1]][pf[2]] # partAppearance[pf[1]][pf[2]]})

flushBufferedUpdates ==
    IF dirtyParts = {}
    THEN UNCHANGED partSinkVars /\ surfaceCalls' = 0
    ELSE /\ partAppearance' =
               [p \in DOMAIN partAppearance |->
                  IF p \in DOMAIN partIndexMap /\ partIndexMap[p] \in dirtyParts
                  THEN AppliedAppearance(partAppearance[p], updateBuffer[partIndexMap[p]])
                  ELSE partAppearance[p]]
         /\ surfaceCalls' = PartAssignments(partAppearance')
         /\ dirtyParts' = {}
         /\ UNCHANGED <<updateBuffer, partIndexMap, nextPartIndex>>

(***************************************************************************)
(* Evaluation of one sample.                                               *)
(***************************************************************************)
\* An entry of evalLog: which sample was evaluated, what the primary ray and
\* the sun were, whether the sample was reshaded, what became of its shadow
\* query, whether a value was handed to the sink, and that value.
LogEntry(idx, rayResult, reshade, shadow, l, written) ==
    [idx |-> idx, rayResult |-> rayResult, light |-> l, reshade |-> reshade,
     shadow |-> IF ~reshade \/ rayResult = NoHit THEN "none"
                ELSE IF shadow.rayCast THEN "cast" ELSE "denied",
     inShadow |-> reshade /\ rayResult # NoHit /\ shadow.result,
     wrote |-> reshade, written |-> written]

\* Whether updatePixel enters the shading branch (line 175).
PixelReshade(rayResult, pixel, l, currentFrame) ==
    LET forceUpdate == currentFrame % FORCE_UPDATE_INT = 0
    IN  PixelSceneChanged(rayResult, pixel) \/ PixelLightChanged(l, pixel) \/ forceUpdate

updatePixel(pixelIdx, currentFrame, l, maxShadowRays) ==
    LET pixel == pixelData[pixelIdx]
        rayResult == RayResult(scene, pixelIdx)
        reshade == PixelReshade(rayResult, pixel, l, currentFrame)
        shadow == isInShadow(shadowLimiter, maxShadowRays, scene, l, pixelIdx)
        rgb == PixelShade(rayResult, rayResult # NoHit /\ shadow.result)
    IN  /\ pixelData' = [pixelData EXCEPT ![pixelIdx] = UpdatedCache(rayResult, l)]
        /\ IF reshade
           THEN /\ IF rayResult # NoHit
                   THEN shadowLimiter' = shadow.shadowLimiter
                   ELSE UNCHANGED shadowLimiter
                /\ setPixelColor(pixelIdx, rgb)
           ELSE UNCHANGED <<shadowLimiter, imageSinkVars>>
        /\ evalLog' = Append(evalLog, LogEntry(pixelIdx, rayResult, reshade, shadow, l,
                                               IF reshade THEN rgb ELSE "none"))

\* Whether updatePart enters the shading branch (line 273); forceUpdate is
\* computed on line 254 and not used.
PartReshade(rayResult, data, l, currentFrame) ==
    PartSceneChanged(rayResult, data) \/ PartLightChanged(l, data)

updatePart_CachesOnReshade(partIdx, currentFrame, l, maxShadowRays) ==
    LET data == trackedParts[partIdx]
        rayResult == RayResult(scene, partIdx)
        reshade == PartReshade(rayResult, data, l, currentFrame)
        shadow == isInShadow(shadowLimiter, maxShadowRays, scene, l, partIdx)
        shade == PartShade(rayResult, rayResult # NoHit /\ shadow.result,
                           partAppearance[partIdx])
    IN  /\ IF reshade
           THEN /\ trackedParts' = [trackedParts EXCEPT ![partIdx] = UpdatedCache(rayResult, l)]
                /\ IF rayResult # NoHit
                   THEN shadowLimiter' = shadow.shadowLimiter
                   ELSE UNCHANGED shadowLimiter
                /\ bufferPartUpdate(partIdx, shade.color, shade.transparency, shade.material)
           ELSE UNCHANGED <<trackedParts, shadowLimiter, partSinkVars>>
        /\ evalLog' = Append(evalLog, LogEntry(partIdx, rayResult, reshade, shadow, l,
                                               IF reshade THEN shade ELSE "none"))

updatePart(partIdx, currentFrame, l, maxShadowRays) ==
    LET data == trackedParts[partIdx]
        rayResult == RayResult(scene, partIdx)
        reshade == PartReshade(rayResult, data, l, currentFrame)
        shadow == isInShadow(shadowLimiter, maxShadowRays, scene, l, partIdx)
        shade == PartShade(rayResult, rayResult # NoHit /\ shadow.result,
                           partAppearance[partIdx])
    IN  /\ trackedParts' = [trackedParts EXCEPT ![partIdx] = UpdatedCache(rayResult, l)]
        /\ IF reshade
           THEN /\ IF rayResult # NoHit
                   THEN shadowLimiter' = shadow.shadowLimiter
                   ELSE UNCHANGED shadowLimiter
                /\ bufferPartUpdate(partIdx, shade.color, shade.transparency, shade.material)
           ELSE UNCHANGED <<shadowLimiter, partSinkVars>>
        /\ evalLog' = Append(evalLog, LogEntry(partIdx, rayResult, reshade, shadow, l,
                                               IF reshade THEN shade ELSE "none"))

(***************************************************************************)
(* The Heartbeat handler.                                                  *)
(***************************************************************************)
\* ceil(sampleCount / batchSize)
Window == (SampleCount + BatchSize - 1) \div BatchSize
\* Completed ticks kept in `history`.
HistoryLen == IF Window > FORCE_UPDATE_INT + 1 THEN Window ELSE FORCE_UPDATE_INT + 1
Remember(h, rec) ==
    IF Len(h) < HistoryLen THEN Append(h, rec) ELSE Append(Tail(h), rec)

Heartbeat_CountsCallbacks(dT) ==
    /\ pc = "idle"
    /\ IF refresh_timer + dT < TickStep
       THEN /\ refresh_timer' = refresh_timer + dT
            /\ globalFrameCount < MaxFrames
            /\ globalFrameCount' = globalFrameCount + 1
            /\ UNCHANGED <<index, shadowLimiter, pc, i, lightDirection, isForceUpdateFrame>>
            /\ UNCHANGED <<histVars, obsVars>>
       ELSE /\ globalFrameCount < MaxFrames
            /\ refresh_timer' = 0
            /\ shadowLimiter' = 0
            /\ globalFrameCount' = globalFrameCount + 1
            /\ lightDirection' = sun
            /\ isForceUpdateFrame' = ((globalFrameCount + 1) % FORCE_UPDATE_INT = 0)
            /\ i' = 0
            /\ pc' = "loop"
            /\ evalLog' = <<>>
            /\ index0' = index
            /\ flushes' = 0
            /\ seen' = IF (globalFrameCount + 1) % FORCE_UPDATE_INT = 0 THEN {} ELSE seen
            /\ surfaceCalls' = 0
            /\ UNCHANGED <<index, history>>
    /\ UNCHANGED <<envVars, cacheVars, imageSinkVars, partSinkVars>>

Heartbeat_ResetsBeforeGate(dT) ==
    /\ pc = "idle"
    /\ IF refresh_timer + dT < TickStep
       THEN /\ refresh_timer' = refresh_timer + dT
            /\ shadowLimiter' = 0
            /\ UNCHANGED <<index, globalFrameCount, pc, i, lightDirection, isForceUpdateFrame>>
            /\ UNCHANGED <<histVars, obsVars>>
       ELSE /\ globalFrameCount < MaxFrames
            /\ refresh_timer' = 0
            /\ shadowLimiter' = 0
            /\ globalFrameCount' = globalFrameCount + 1
            /\ lightDirection' = sun
            /\ isForceUpdateFrame' = ((globalFrameCount + 1) % FORCE_UPDATE_INT = 0)
            /\ i' = 0
            /\ pc' = "loop"
            /\ evalLog' = <<>>
            /\ index0' = index
            /\ flushes' = 0
            /\ seen' = IF (globalFrameCount + 1) % FORCE_UPDATE_INT = 0 THEN {} ELSE seen
            /\ surfaceCalls' = 0
            /\ UNCHANGED <<index, history>>
    /\ UNCHANGED <<envVars, cacheVars, imageSinkVars, partSinkVars>>

\* Lines 227-237 (client) / 316-326 (server): the time gate and the start of
\* a processed tick.
Heartbeat(dT) ==
    /\ pc = "idle"
    /\ IF refresh_timer + dT < TickStep
       THEN /\ refresh_timer' = refresh_timer + dT
            /\ UNCHANGED <<index, globalFrameCount, shadowLimiter, pc, i,
                           lightDirection, isForceUpdateFrame>>
            /\ UNCHANGED <<histVars, obsVars>>
       ELSE /\ globalFrameCount < MaxFrames
            /\ refresh_timer' = 0
            /\ shadowLimiter' = 0
            /\ globalFrameCount' = globalFrameCount + 1
            /\ lightDirection' = sun
            /\ isForceUpdateFrame' = ((globalFrameCount + 1) % FORCE_UPDATE_INT = 0)
            /\ i' = 0
            /\ pc' = "loop"
            /\ evalLog' = <<>>
            /\ index0' = index
            /\ flushes' = 0
            /\ seen' = IF (globalFrameCount + 1) % FORCE_UPDATE_INT = 0 THEN {} ELSE seen
            /\ surfaceCalls' = 0
            /\ UNCHANGED <<index, history>>
    /\ UNCHANGED <<envVars, cacheVars, imageSinkVars, partSinkVars>>

\* One sample evaluation of the variant that runs.
updateSample(idx) ==
    IF variant = "image"
    THEN /\ updatePixel(idx, globalFrameCount, lightDirection, shadowLimit(isForceUpdateFrame))
         /\ UNCHANGED <<trackedParts, partSinkVars>>
    ELSE /\ updatePart(idx, globalFrameCount, lightDirection, shadowLimit(isForceUpdateFrame))
         /\ UNCHANGED <<pixelData, imageSinkVars>>

\* math.min(TOTAL_PIXELS, maxForceUpdates) / math.min(trackedParts.size(), maxForceUpdates)
ForcedPassBound_Batch == BatchSize
ForcedPassBound == Min(SampleCount, maxForceUpdates)

\* pixelIndex = (pixelIndex + 1) % TOTAL_PIXELS / index = (index + 1) % trackedParts.size()
NextIndex_Skip(idx) == (idx + 2) % SampleCount
NextIndex(idx) == (idx + 1) % SampleCount

ForcedLoop_MovesCursor ==
    /\ pc = "loop"
    /\ isForceUpdateFrame
    /\ IF i < ForcedPassBound
       THEN /\ updateSample(i)
            /\ i' = i + 1
            /\ index' = NextIndex(i)
            /\ UNCHANGED pc
       ELSE /\ pc' = "flush"
            /\ UNCHANGED <<index, i, shadowLimiter, cacheVars, imageSinkVars,
                           partSinkVars, evalLog>>
    /\ UNCHANGED <<envVars, globalFrameCount, refresh_timer, lightDirection,
                   isForceUpdateFrame, index0, history, obsVars>>

\* Lines 239-245 / 328-334: one iteration of the forced pass, or its end.
ForcedLoop ==
    /\ pc = "loop"
    /\ isForceUpdateFrame
    /\ IF i < ForcedPassBound
       THEN /\ updateSample(i)
            /\ i' = i + 1
            /\ UNCHANGED <<index, pc>>
       ELSE /\ pc' = "flush"
            /\ UNCHANGED <<index, i, shadowLimiter, cacheVars, imageSinkVars,
                           partSinkVars, evalLog>>
    /\ UNCHANGED <<envVars, globalFrameCount, refresh_timer, lightDirection,
                   isForceUpdateFrame, index0, history, obsVars>>

\* A rotating pass that evaluates the sample under the cursor and leaves the
\* cursor where it is.
RotatingLoop_KeepsCursor ==
    /\ pc = "loop"
    /\ ~isForceUpdateFrame
    /\ IF i < BatchSize
       THEN /\ updateSample(index)
            /\ i' = i + 1
            /\ seen' = seen \cup {index}
            /\ UNCHANGED <<index, pc>>
       ELSE /\ pc' = "flush"
            /\ UNCHANGED <<index, i, shadowLimiter, cacheVars, imageSinkVars,
                           partSinkVars, evalLog, seen>>
    /\ UNCHANGED <<envVars, globalFrameCount, refresh_timer, lightDirection,
                   isForceUpdateFrame, index0, history, surfaceCalls, flushes>>

\* Lines 246-253 / 335-343: one iteration of the rotating pass, or its end.
RotatingLoop ==
    /\ pc = "loop"
    /\ ~isForceUpdateFrame
    /\ IF i < BatchSize
       THEN /\ updateSample(index)
            /\ index' = NextIndex(index)
            /\ i' = i + 1
            /\ seen' = seen \cup {index}
            /\ UNCHANGED pc
       ELSE /\ pc' = "flush"
            /\ UNCHANGED <<index, i, shadowLimiter, cacheVars, imageSinkVars,
                           partSinkVars, evalLog, seen>>
    /\ UNCHANGED <<envVars, globalFrameCount, refresh_timer, lightDirection,
                   isForceUpdateFrame, index0, history, surfaceCalls, flushes>>

\* A handler that skips the flush call of a tick that wrote nothing.
Flush_SkipsCleanTick ==
    /\ pc = "flush"
    /\ IF \A k \in 1..Len(evalLog) : ~evalLog[k].wrote
       THEN UNCHANGED <<imageSinkVars, partSinkVars, surfaceCalls, flushes>>
       ELSE /\ IF variant = "image"
               THEN flushPixelUpdates /\ UNCHANGED partSinkVars
               ELSE flushBufferedUpdates /\ UNCHANGED imageSinkVars
            /\ flushes' = flushes + 1
    /\ pc' = "idle"
    /\ history' = Remember(history, [forced |-> isForceUpdateFrame, start |-> index0,
                                     end |-> index,
                                     visited |-> [k \in 1..Len(evalLog) |-> evalLog[k].idx]])
    /\ evalLog' = <<>>
    /\ UNCHANGED <<envVars, cacheVars, index, globalFrameCount, refresh_timer,
                   shadowLimiter, i, lightDirection, isForceUpdateFrame, index0, seen>>

\* Line 255 / 345: the flush that ends the tick.
Flush ==
    /\ pc = "flush"
    /\ IF variant = "image"
       THEN flushPixelUpdates /\ UNCHANGED partSinkVars
       ELSE flushBufferedUpdates /\ UNCHANGED imageSinkVars
    /\ pc' = "idle"
    /\ history' = Remember(history, [forced |-> isForceUpdateFrame, start |-> index0,
                                     end |-> index,
                                     visited |-> [k \in 1..Len(evalLog) |-> evalLog[k].idx]])
    /\ evalLog' = <<>>
    /\ flushes' = flushes + 1
    /\ UNCHANGED <<envVars, cacheVars, index, globalFrameCount, refresh_timer,
                   shadowLimiter, i, lightDirection, isForceUpdateFrame, index0, seen>>

(***************************************************************************)
(* The host, between callbacks.                                            *)
(***************************************************************************)
SceneChange ==
    /\ pc = "idle"
    /\ scene' \in Scenes \ {scene}
    /\ seen' = {}
    /\ UNCHANGED <<variant, sun, cacheVars, schedVars, imageSinkVars, partSinkVars, histVars,
                   surfaceCalls, flushes>>

SunMove ==
    /\ pc = "idle"
    /\ sun' \in LightDirections \ {sun}
    /\ seen' = {}
    /\ UNCHANGED <<variant, scene, cacheVars, schedVars, imageSinkVars, partSinkVars, histVars,
                   surfaceCalls, flushes>>

InitIn(scenes) ==
    /\ variant \in Variants
    /\ scene \in scenes
    /\ sun \in LightDirections
    /\ pixelData = IF variant = "image" THEN [s \in Samples |-> EmptyCache] ELSE <<>>
    /\ trackedParts = IF variant = "part" THEN [s \in Samples |-> EmptyCache] ELSE <<>>
    /\ index = 0
    /\ globalFrameCount = 0
    /\ refresh_timer = 0
    /\ shadowLimiter = 0
    /\ pc = "idle"
    /\ i = 0
    /\ lightDirection = <<>>
    /\ isForceUpdateFrame = FALSE
    /\ pixelBuffer = IF variant = "image" THEN [s \in Samples |-> <<0, 0, 0, 0>>] ELSE <<>>
    /\ editableImage = IF variant = "image" THEN [s \in Samples |-> <<0, 0, 0, 0>>] ELSE <<>>
    /\ updateBuffer = IF variant = "part"
                      THEN [s \in Samples |-> [R |-> 0, G |-> 0, B |-> 0, A |-> 0, Mat |-> 0]]
                      ELSE <<>>
    /\ partIndexMap = <<>>
    /\ dirtyParts = {}
    /\ nextPartIndex = 0
    /\ partAppearance = IF variant = "part"
                        THEN [s \in Samples |-> [Color |-> <<5100, 0, 0>>,
                                                  Transparency |-> 0,
                                                  Material |-> "Plastic"]]
                        ELSE <<>>
    /\ evalLog = <<>>
    /\ index0 = 0
    /\ history = <<>>
    /\ surfaceCalls = 0
    /\ flushes = 0
    /\ seen = {}

Init == InitIn(Scenes)

Next ==
    \/ \E dT \in 1..MaxDT : Heartbeat(dT)
    \/ ForcedLoop
    \/ RotatingLoop
    \/ Flush
    \/ SceneChange
    \/ SunMove

Spec == Init /\ [][Next]_vars

(***************************************************************************)
(* The handler running forever in a scene and under a sun that do not       *)
(* change.  The handlers read globalFrameCount only modulo                  *)
(* FORCE_UPDATE_INT, and here the count is kept modulo FORCE_UPDATE_INT.    *)
(* The engine fires Heartbeat on every frame and the handler's code runs    *)
(* straight through, so a step that can be taken is taken (weak fairness).  *)
(***************************************************************************)
HeartbeatCyclic(dT) ==
    /\ pc = "idle"
    /\ IF refresh_timer + dT < TickStep
       THEN /\ refresh_timer' = refresh_timer + dT
            /\ UNCHANGED <<index, globalFrameCount, shadowLimiter, pc, i,
                           lightDirection, isForceUpdateFrame>>
            /\ UNCHANGED <<histVars, obsVars>>
       ELSE /\ refresh_timer' = 0
            /\ shadowLimiter' = 0
            /\ globalFrameCount' = (globalFrameCount + 1) % FORCE_UPDATE_INT
            /\ lightDirection' = sun
            /\ isForceUpdateFrame' = ((globalFrameCount + 1) % FORCE_UPDATE_INT = 0)
            /\ i' = 0
            /\ pc' = "loop"
            /\ evalLog' = <<>>
            /\ index0' = index
            /\ flushes' = 0
            /\ seen' = IF (globalFrameCount + 1) % FORCE_UPDATE_INT = 0 THEN {} ELSE seen
            /\ surfaceCalls' = 0
            /\ UNCHANGED <<index, history>>
    /\ UNCHANGED <<envVars, cacheVars, imageSinkVars, partSinkVars>>

LiveNext ==
    \/ \E dT \in 1..MaxDT : HeartbeatCyclic(dT)
    \/ ForcedLoop
    \/ RotatingLoop
    \/ Flush

LiveSpec == Init /\ [][LiveNext]_vars /\ WF_vars(LiveNext)

(***************************************************************************)
(* The shading on its own: the handler running in each of the scenes, the   *)
(* surface scenes included, so that the three branches of updatePixel and   *)
(* updatePart are applied to surface colours inside and outside 0..1.       *)
(***************************************************************************)
ShadeInit == InitIn(Scenes \cup SurfaceScenes)

ShadeSpec == ShadeInit /\ [][LiveNext]_vars

(***************************************************************************)
(* The sparse sink on its own: any sequence of bufferPartUpdate calls and   *)
(* flushBufferedUpdates calls.  evalLog keeps the last value written to     *)
(* each part since the previous flush, in the order of the parts.           *)
(***************************************************************************)
\* Parts the sink is driven with.
SinkParts == 2
\* Values written: a grey on plastic; on metal a second grey within the
\* colour tolerance of the first, a third grey within the tolerance of the
\* second and beyond that of the first, and a far colour in shadow.
SinkValues ==
    {[color |-> <<2000, 2000, 2000>>, transparency |-> LIGHT_TRANSPARENCY,
      material |-> "Plastic"],
     [color |-> <<2040, 2040, 2040>>, transparency |-> LIGHT_TRANSPARENCY,
      material |-> "Metal"],
     [color |-> <<2080, 2080, 2080>>, transparency |-> LIGHT_TRANSPARENCY,
      material |-> "Metal"],
     [color |-> <<4000, 4000, 4000>>, transparency |-> SHADOW_TRANSPARENCY,
      material |-> "Metal"]}

SinkOthersUnchanged ==
    UNCHANGED <<envVars, cacheVars, schedVars, imageSinkVars, index0, history>>

SinkWrite(part, value) ==
    /\ bufferPartUpdate(part, value.color, value.transparency, value.material)
    /\ evalLog' = SelectSeq(evalLog, LAMBDA e : e.idx < part)
                    \o <<LogEntry(part, NoHit, TRUE, [rayCast |-> FALSE, result |-> FALSE],
                                  <<>>, value)>>
                    \o SelectSeq(evalLog, LAMBDA e : e.idx > part)
    /\ SinkOthersUnchanged
    /\ surfaceCalls' = 0
    /\ UNCHANGED <<flushes, seen>>

SinkFlush ==
    /\ flushBufferedUpdates
    /\ evalLog' = <<>>
    /\ SinkOthersUnchanged
    /\ UNCHANGED <<flushes, seen>>

SinkInit == Init /\ variant = "part" /\ scene = "s1" /\ sun = <<0, 10000, 0>>

SinkNext ==
    \/ \E part \in 0..(SinkParts - 1), value \in SinkValues : SinkWrite(part, value)
    \/ SinkFlush

SinkSpec == SinkInit /\ [][SinkNext]_vars

(***************************************************************************)
(* Properties.                                                             *)
(***************************************************************************)
InTick == pc # "idle"
Visited == [k \in 1..Len(evalLog) |-> evalLog[k].idx]
ShadowQueries == Cardinality({k \in 1..Len(evalLog) : evalLog[k].shadow = "cast"})
SampleCache(s) == IF variant = "image" THEN pixelData[s] ELSE trackedParts[s]

\* C1: within a processed tick the number of shadow queries issued, which is
\* the value of shadowLimiter, never exceeds the shadow limit of the tick's
\* mode, and shadowLimiter is 0 when the tick has evaluated no sample yet.
C1_ShadowBudget ==
    InTick => /\ shadowLimiter = ShadowQueries
              /\ shadowLimiter <= shadowLimit(isForceUpdateFrame)
              /\ (evalLog = <<>> => shadowLimiter = 0)

\* A forced tick of the image program that used up its budget and was denied
\* a query.
C1_Witness ==
    /\ pc = "flush" /\ isForceUpdateFrame
    /\ shadowLimiter = shadowLimit(TRUE)
    /\ \E k \in 1..Len(evalLog) : evalLog[k].shadow = "denied"

\* C2: in a forced tick (globalFrameCount mod FORCE_UPDATE_INT = 0) every
\* sample the pass visits is reshaded, in the image and in the part program,
\* also when its hit and the light direction equal the cached ones.
C2_ForcedReshadesAll ==
    (InTick /\ isForceUpdateFrame) => \A k \in 1..Len(evalLog) : evalLog[k].reshade

\* The last Window completed ticks, when all of them were rotating ticks.
LastWindow == SubSeq(history, Len(history) - Window + 1, Len(history))
RotatingWindow ==
    /\ Len(history) >= Window
    /\ \A k \in 1..Window : ~LastWindow[k].forced
VisitsIn(h, s) ==
    Cardinality({<<k, j>> \in (1..Len(h)) \X (1..(BatchSize + maxForceUpdates)) :
                   j <= Len(h[k].visited) /\ h[k].visited[j] = s})

\* C3 as stated: over ceil(sampleCount / batchSize) consecutive rotating ticks
\* every sample index is visited exactly once and the cursor ends where it
\* started.
C3_RotationExactlyOnce ==
    RotatingWindow =>
        /\ \A s \in Samples : VisitsIn(LastWindow, s) = 1
        /\ LastWindow[Window].end = LastWindow[1].start

\* C3 amended: over ceil(sampleCount / batchSize) consecutive rotating ticks
\* every sample index is visited at least once and the cursor ends
\* Window * batchSize past its start, modulo sampleCount; every index is
\* visited exactly once and the cursor returns to its start when batchSize
\* divides sampleCount.
C3_RotationCoverage ==
    RotatingWindow =>
        /\ \A s \in Samples : VisitsIn(LastWindow, s) >= 1
        /\ LastWindow[Window].end = (LastWindow[1].start + Window * BatchSize) % SampleCount
        /\ SampleCount % BatchSize = 0 =>
              /\ \A s \in Samples : VisitsIn(LastWindow, s) = 1
              /\ LastWindow[Window].end = LastWindow[1].start

\* A full window of rotating ticks that started at a cursor other than 0.
C3_Witness ==
    /\ RotatingWindow
    /\ LastWindow[1].start # 0
    /\ SampleCount % BatchSize = 0

\* C4: in a forced tick the samples 0 .. min(sampleCount, forcedCap) - 1 are
\* evaluated, in index order from 0, whatever the cursor and whatever the
\* change state of the samples.
C4_ForcedCoverage ==
    (InTick /\ isForceUpdateFrame) =>
        /\ \A k \in 1..Len(evalLog) : evalLog[k].idx = k - 1
        /\ pc = "loop" => Len(evalLog) = i
        /\ pc = "flush" => Len(evalLog) = Min(SampleCount, maxForceUpdates)

\* A finished forced pass with the cursor away from 0.
C4_Witness ==
    /\ pc = "flush" /\ isForceUpdateFrame /\ index # 0
    /\ Len(evalLog) = Min(SampleCount, maxForceUpdates)

\* The shadow limits the two handlers pass, as written in the source.
SourceShadowLimit(v, forced) ==
    IF v = "image"
    THEN (IF forced THEN ClientForcedShadowLimit ELSE ClientRotatingShadowLimit)
    ELSE (IF forced THEN ServerForcedShadowLimit ELSE ServerRotatingShadowLimit)

\* C5: the shadow-ray limit in effect in a forced tick is strictly larger
\* than the limit in effect in a rotating tick, in both programs.
C5_ForcedLimitLarger ==
    (InTick /\ isForceUpdateFrame) =>
        /\ SourceShadowLimit(variant, TRUE) > SourceShadowLimit(variant, FALSE)
        /\ shadowLimit(TRUE) > shadowLimit(FALSE)

\* C6: a forced tick leaves the cursor unchanged; a rotating tick evaluates
\* the batchSize consecutive indices (mod sampleCount) from the pre-tick cursor
\* and leaves the cursor advanced by batchSize mod sampleCount; so every tick
\* starts where the last rotating tick stopped.
C6_CursorMotion ==
    /\ (InTick /\ isForceUpdateFrame) => index = index0
    /\ (InTick /\ ~isForceUpdateFrame) =>
          /\ Visited = [k \in 1..Len(evalLog) |-> (index0 + k - 1) % SampleCount]
          /\ index = (index0 + Len(evalLog)) % SampleCount
          /\ pc = "flush" => Len(evalLog) = BatchSize
    /\ \A k \in 1..Len(history) :
          /\ history[k].forced => history[k].end = history[k].start
          /\ k > 1 => history[k].start = history[k - 1].end

\* A rotating tick that runs right after a forced tick, cursor away from 0.
C6_Witness ==
    /\ pc = "flush" /\ ~isForceUpdateFrame /\ index0 # 0
    /\ Len(history) >= 2
    /\ history[Len(history)].forced
    /\ ~history[Len(history) - 1].forced

\* Step part of C7: globalFrameCount changes only in the step that starts a
\* processed tick, by one, and that step decides the tick's mode.
C7_TickStep ==
    /\ globalFrameCount' # globalFrameCount =>
          (pc = "idle" /\ pc' = "loop" /\ globalFrameCount' = globalFrameCount + 1)
    /\ (pc = "idle" /\ pc' # "idle") =>
          /\ globalFrameCount' = globalFrameCount + 1
          /\ isForceUpdateFrame' = (globalFrameCount' % FORCE_UPDATE_INT = 0)
    /\ pc # "idle" => isForceUpdateFrame' = isForceUpdateFrame
C7_Cadence ==
    \A k \in 1..Len(history) :
        history[k].forced <=>
            ((globalFrameCount - (IF InTick THEN 1 ELSE 0) - Len(history) + k)
                % FORCE_UPDATE_INT = 0)

\* C7: globalFrameCount is incremented exactly once per processed tick and
\* never otherwise; a processed tick is a forced tick exactly when the
\* incremented count is a multiple of FORCE_UPDATE_INT; so two consecutive
\* forced ticks have exactly FORCE_UPDATE_INT - 1 rotating ticks between them.
C7_FrameCount == [][C7_TickStep]_vars /\ []C7_Cadence

\* Two forced ticks with FORCE_UPDATE_INT - 1 rotating ticks between them.
C7_Witness ==
    /\ Len(history) > FORCE_UPDATE_INT
    /\ history[Len(history)].forced
    /\ history[Len(history) - FORCE_UPDATE_INT].forced
    /\ \A k \in (Len(history) - FORCE_UPDATE_INT + 1)..(Len(history) - 1) : ~history[k].forced

\* C8: a callback whose accumulated time stays below the step changes the
\* time accumulator only: frame count, cursor, shadow counter, caches, sink
\* buffers, dirty set and presentation surfaces are unchanged and no ray is
\* cast.
C8_SubStepNoOp ==
    [][(pc = "idle" /\ refresh_timer' # refresh_timer /\ refresh_timer' < TickStep
          /\ refresh_timer' # 0) =>
         UNCHANGED <<envVars, cacheVars, index, globalFrameCount, shadowLimiter, pc, i,
                     lightDirection, isForceUpdateFrame, imageSinkVars, partSinkVars,
                     histVars>>]_vars

\* A sub-step callback has run after a tick that cast shadow rays.
C8_Witness ==
    /\ pc = "idle" /\ refresh_timer > 0
    /\ globalFrameCount > 0 /\ shadowLimiter > 0

\* C10: the presentation surface changes only in the flush call: no write
\* between the start of a tick and its flush changes what the surface shows.
C10_OnlyFlushShows ==
    [][(editableImage' # editableImage \/ partAppearance' # partAppearance) =>
         (pc = "flush" /\ pc' = "idle")]_vars

\* Writes are pending in the sink before the flush and the surface does not
\* show them.
C10_Witness ==
    /\ pc = "flush"
    /\ \/ variant = "image" /\ pixelBuffer # editableImage
       \/ variant = "part" /\ dirtyParts # {}

\* The last value written to part p since the previous flush.
WrittenParts == {evalLog[k].idx : k \in {j \in 1..Len(evalLog) : evalLog[j].wrote}}
LastWritten(p) ==
    LET ks == {k \in 1..Len(evalLog) : evalLog[k].idx = p /\ evalLog[k].wrote}
    IN  evalLog[CHOOSE k \in ks : \A j \in ks : j <= k].written
IsDirty(p) == p \in DOMAIN partIndexMap /\ partIndexMap[p] \in dirtyParts
\* A flushBufferedUpdates call that follows at least one write.
FlushAfterWrites == variant = "part" /\ WrittenParts # {} /\ evalLog' = <<>>
Shows(appearance, w) ==
    /\ appearance.Color = w.color
    /\ appearance.Transparency = w.transparency
    /\ appearance.Material = w.material

\* C9 as stated: after a flush that follows a sequence of writes, a part whose
\* last written value differs from what the surface showed shows exactly that
\* value, and every other part is untouched.
C9_FlushShowsLastWrite ==
    [][FlushAfterWrites =>
         \A p \in Samples :
            IF p \in WrittenParts /\ ~Shows(partAppearance[p], LastWritten(p))
            THEN Shows(partAppearance'[p], LastWritten(p))
            ELSE partAppearance'[p] = partAppearance[p]]_vars

\* C9 amended: after the flush a written part shows its last written value up
\* to the sink's tolerances (material exactly, transparency within 0.001, each
\* colour channel within 0.01 of the stored record, which is within 0.01 of
\* the last write; the colour exactly when the stored record differs from the
\* colour shown by 0.01 or more in some channel), and a part whose index is
\* not dirty is untouched.
C9_FlushWithinTolerance ==
    [][FlushAfterWrites =>
         \A p \in Samples :
            /\ ~IsDirty(p) => partAppearance'[p] = partAppearance[p]
            /\ p \in WrittenParts =>
                 LET w == LastWritten(p)
                     rec == updateBuffer[partIndexMap[p]]
                     after == partAppearance'[p]
                 IN  /\ rec.Mat = materialToNumber(w.material)
                     /\ after.Material = w.material
                     /\ Abs(rec.A - w.transparency) <= TransparencyEpsilon
                     /\ after.Transparency = rec.A
                     /\ \A c \in 1..3 :
                           /\ Abs(<<rec.R, rec.G, rec.B>>[c] - w.color[c]) <= ColorEpsilon
                           /\ Abs(after.Color[c] - <<rec.R, rec.G, rec.B>>[c]) < ColorEpsilon
                     /\ ~fuzzyColorEq(partAppearance[p].Color, <<rec.R, rec.G, rec.B>>)
                           => after.Color = <<rec.R, rec.G, rec.B>>]_vars

\* Before a flush: a dirty part whose last write was dropped as within
\* tolerance of an earlier write that the record still holds.
C9_Witness ==
    /\ variant = "part"
    /\ \E p \in WrittenParts :
          /\ IsDirty(p)
          /\ <<updateBuffer[partIndexMap[p]].R, updateBuffer[partIndexMap[p]].G,
               updateBuffer[partIndexMap[p]].B>> # LastWritten(p).color

(***************************************************************************)
(* Properties of the flush, the change detector and the shadow budget.     *)
(***************************************************************************)
\* The step that runs the flush call of a tick.
FlushStep == pc = "flush" /\ pc' = "idle"
\* No evaluation of the tick handed a value to the sink.
NoWritesThisTick == \A k \in 1..Len(evalLog) : ~evalLog[k].wrote
\* A step of the handler's loop that evaluates one sample, and its log entry.
EvalStep == pc = "loop" /\ pc' = "loop" /\ Len(evalLog') = Len(evalLog) + 1
Evaluated == evalLog'[Len(evalLog')]

\* C11 as stated: in both programs a flush of a tick in which no value was
\* written to the sink makes no call on the presentation surface and changes
\* no sink state.
C11_NoWriteFlushNoCall ==
    [][(FlushStep /\ NoWritesThisTick) =>
          /\ surfaceCalls' = 0
          /\ UNCHANGED <<imageSinkVars, partSinkVars>>]_vars

\* C11 amended: a flush of a tick in which no value was written changes no
\* sink state and leaves the surface showing what it showed; the sparse flush
\* makes no call on the surface, the dense flush makes its one bulk call.
C11_NoWriteFlushShowsSame ==
    [][(FlushStep /\ NoWritesThisTick) =>
          /\ UNCHANGED <<imageSinkVars, partSinkVars>>
          /\ surfaceCalls' = IF variant = "image" THEN 1 ELSE 0]_vars

\* The image program is about to flush a tick that evaluated samples and
\* wrote none, with an image on the surface.
C11_Witness ==
    /\ variant = "image" /\ pc = "flush"
    /\ evalLog # <<>> /\ NoWritesThisTick
    /\ \E s \in Samples : editableImage[s] # <<0, 0, 0, 0>>

\* The scene-changed predicate as the specification states it.
SceneChangedAsSpecified(r, c) ==
    \/ r.Instance # c.lastHitInstance
    \/ r.Material # c.lastHitMaterial
    \/ (r.Position = <<>>) # (c.lastHitPosition = <<>>)
    \/ /\ r.Position # <<>>
       /\ c.lastHitPosition # <<>>
       /\ \E a \in 1..3 : Abs(r.Position[a] - c.lastHitPosition[a]) > PositionEpsilon

\* C12: in both programs a sample is reshaded whenever its hit differs from
\* its cache in identity, in material, in being a hit or a miss, or in
\* position beyond the positional tolerance; so a hit on the same instance
\* and material at a position moved beyond the tolerance reshades the sample.
C12_SceneChangeReshades ==
    [][EvalStep =>
         (SceneChangedAsSpecified(Evaluated.rayResult, SampleCache(Evaluated.idx))
            => Evaluated.reshade)]_vars

\* C13: after an evaluation of a sample, reshaded or not, shadow query
\* denied or not, the four cache fields of the sample are the hit identity,
\* hit position, hit material and light direction observed in that
\* evaluation (the last one of the sample in the tick).
C13_CacheIsLastObservation ==
    \A k \in 1..Len(evalLog) :
        (\A j \in (k + 1)..Len(evalLog) : evalLog[j].idx # evalLog[k].idx) =>
            SampleCache(evalLog[k].idx) =
                [lastHitInstance |-> evalLog[k].rayResult.Instance,
                 lastHitPosition |-> evalLog[k].rayResult.Position,
                 lastHitMaterial |-> evalLog[k].rayResult.Material,
                 lastLightDirection |-> evalLog[k].light]

\* The part program evaluated a sample under the near-diagonal sun without
\* reshading it.
C13_Witness ==
    /\ variant = "part" /\ pc = "flush"
    /\ \E k \in 1..Len(evalLog) :
          ~evalLog[k].reshade /\ evalLog[k].light = <<7077, 7065, 0>>

C15_FirstEvaluationReshades ==
    [][(EvalStep /\ SampleCache(Evaluated.idx).lastLightDirection = <<>>) =>
          /\ Evaluated.reshade
          /\ Evaluated.wrote
          /\ Evaluated.rayResult # NoHit => Evaluated.shadow # "none"]_vars

\* The first tick has just evaluated a sample whose primary ray missed.
C15_Witness ==
    /\ pc = "loop" /\ globalFrameCount = 1 /\ evalLog # <<>>
    /\ evalLog[Len(evalLog)].rayResult = NoHit
    /\ evalLog[Len(evalLog)].reshade

\* C18: isInShadow called with shadowLimiter >= limit returns false, casts no
\* ray and leaves shadowLimiter unchanged; called with shadowLimiter < limit
\* it adds exactly 1 to shadowLimiter, casts one ray and returns whether the
\* ray hit.
C18_IsInShadowBudget ==
    [][(EvalStep /\ Evaluated.shadow # "none") =>
          IF shadowLimiter >= shadowLimit(isForceUpdateFrame)
          THEN /\ Evaluated.shadow = "denied"
               /\ ~Evaluated.inShadow
               /\ shadowLimiter' = shadowLimiter
          ELSE /\ Evaluated.shadow = "cast"
               /\ shadowLimiter' = shadowLimiter + 1
               /\ Evaluated.inShadow = ShadowRayHits(scene, lightDirection, Evaluated.idx)]_vars

\* A call was just denied in a tick in which an earlier call cast a ray.
C18_Witness ==
    /\ pc = "loop" /\ evalLog # <<>>
    /\ evalLog[Len(evalLog)].shadow = "denied"
    /\ \E k \in 1..Len(evalLog) : evalLog[k].shadow = "cast" /\ evalLog[k].inShadow

(***************************************************************************)
(* The dirty set of the sparse sink.                                       *)
(***************************************************************************)
\* Whether value w differs from the appearance a by more than the sink's
\* tolerances.
DiffersBeyondTolerance(w, a) ==
    \/ \E c \in 1..3 : Abs(w.color[c] - a.Color[c]) > ColorEpsilon
    \/ Abs(w.transparency - a.Transparency) > TransparencyEpsilon
    \/ w.material # a.Material

\* Every dirty index is the index of a part in partIndexMap, so the flush
\* resolves every dirty index.
DirtyIndicesResolve ==
    \A x \in dirtyParts : \E p \in DOMAIN partIndexMap : partIndexMap[p] = x

PassLength == IF isForceUpdateFrame THEN Min(SampleCount, maxForceUpdates) ELSE BatchSize

C19_TickOrder ==
    /\ pc = "loop" => flushes = 0
    /\ pc = "flush" => flushes = 0 /\ Len(evalLog) = PassLength
    /\ pc = "idle" => ((flushes = 1 /\ history # <<>>) \/ (flushes = 0 /\ history = <<>>))
C19_TickSteps ==
    /\ Len(evalLog') > Len(evalLog) => (pc = "loop" /\ pc' = "loop" /\ flushes = 0)
    /\ flushes' > flushes => (pc = "flush" /\ pc' = "idle")
    /\ pc = "idle" /\ pc' # "idle" => (pc' = "loop" /\ evalLog' = <<>> /\ flushes' = 0)
    /\ pc = "loop" => (pc' \in {"loop", "flush"} /\ i' >= i)
    /\ pc = "flush" => pc' \in {"flush", "idle"}

\* C19: a processed tick, once begun, runs its whole pass and then calls
\* flush exactly once, after the last evaluation of the tick and before the
\* next tick begins; evaluations happen only inside the pass, never between
\* a flush and the start of the next tick; the pass is not cut short and not
\* run again; and the tick always reaches its end.
C19_TickCompletes ==
    /\ []C19_TickOrder
    /\ [][C19_TickSteps]_vars
    /\ (InTick ~> pc = "idle")

\* A forced tick and the rotating tick before it have both been flushed.
C19_Witness ==
    /\ pc = "idle" /\ flushes = 1 /\ Len(history) >= 2
    /\ history[Len(history)].forced
    /\ Len(history[Len(history)].visited) = Min(SampleCount, maxForceUpdates)
    /\ Len(history[Len(history) - 1].visited) = BatchSize

\* Whether the surface shows, for sample s, the shading of the sample's
\* actual state: its hit under the scene and whether the hit point is
\* occluded from the sun (the part program up to the sink's colour tolerance).
ActualShadow(s) == RayResult(scene, s) # NoHit /\ ShadowRayHits(scene, sun, s)
ShowsActualState(s) ==
    IF variant = "image"
    THEN LET rgb == PixelShade(RayResult(scene, s), ActualShadow(s))
         IN  editableImage[s] = <<WriteU8(Floor(rgb[1])), WriteU8(Floor(rgb[2])),
                                  WriteU8(Floor(rgb[3])), WriteU8(255)>>
    ELSE LET shade == PartShade(RayResult(scene, s), ActualShadow(s), partAppearance[s])
         IN  /\ \A c \in 1..3 : Abs(partAppearance[s].Color[c] - shade.color[c]) <= ColorEpsilon
             /\ partAppearance[s].Transparency = shade.transparency
             /\ partAppearance[s].Material = shade.material

\* C20: once the scene and the light have stopped changing, from some tick on
\* every sample shows, between ticks, the shading of its actual state; so no
\* sample whose hit point is occluded stays shown in the lit colour forever
\* after a denied shadow query.
C20_EventuallyMatches ==
    <>[](pc = "idle" => \A s \in Samples : ShowsActualState(s))

(***************************************************************************)
(* Starvation.                                                             *)
(***************************************************************************)
\* The larger of the two sample counts.
MaxSampleCount == IF TOTAL_PIXELS > PartCount THEN TOTAL_PIXELS ELSE PartCount
\* The pass of the current tick has ended and has evaluated sample s.
EvaluatedThisTick(s) == pc = "flush" /\ \E k \in 1..Len(evalLog) : evalLog[k].idx = s

\* C21: while processed ticks keep occurring, every sample index in
\* 0..sampleCount-1 is evaluated infinitely often, in the image and in the
\* part program: again and again a tick's pass ends having evaluated it.
C21_NoSampleStarved ==
    \A s \in 0..(MaxSampleCount - 1) : []<>(s \in Samples => EvaluatedThisTick(s))

\* A rotating tick, begun after a forced tick, whose pass wrapped the cursor
\* round the end of the sample set and evaluated the last sample, which no
\* forced pass reaches.
C21_Witness ==
    /\ pc = "flush" /\ ~isForceUpdateFrame
    /\ \E k \in 1..Len(history) : history[k].forced
    /\ SampleCount - 1 >= ForcedPassBound
    /\ EvaluatedThisTick(SampleCount - 1)
    /\ index < index0

(***************************************************************************)
(* The colours handed to the sinks.                                        *)
(***************************************************************************)
\* The colour an evaluation handed to its sink (setPixelColor's r, g, b in
\* thousandths of a byte; bufferPartUpdate's Color3 in 1/5100), and the
\* surface colour and the shadow tint on the same scale.
HandedColor(e) == IF variant = "image" THEN e.written ELSE e.written.color
SurfaceChannel(e, c) ==
    IF variant = "image" THEN 50 * e.rayResult.Color[c] ELSE e.rayResult.Color[c]
TintChannel(c) ==
    IF variant = "image" THEN 1000 * SHADOW_COLOR[c] ELSE 20 * SHADOW_COLOR[c]
ShadowEntries == {k \in 1..Len(evalLog) : evalLog[k].inShadow}

\* C22 as stated: for a hit sample whose shadow test returned true, each
\* colour channel handed to the sink is 0.6 * surface + 0.4 * tint.
C22_ShadowBlendSixtyForty ==
    \A k \in ShadowEntries : \A c \in 1..3 :
        10 * HandedColor(evalLog[k])[c]
            = 6 * SurfaceChannel(evalLog[k], c) + 4 * TintChannel(c)

\* C22 amended: for a hit sample whose shadow test returned true, each
\* colour channel handed to the sink is 0.4 * surface + 0.6 * tint (the
\* surface colour moved 60% of the way to the tint (50, 50, 100)), in the
\* image and in the part program, with the material of the hit surface and
\* SHADOW_TRANSPARENCY in the part program.
C22_ShadowBlendFortySixty ==
    \A k \in ShadowEntries :
        /\ \A c \in 1..3 :
              10 * HandedColor(evalLog[k])[c]
                  = 4 * SurfaceChannel(evalLog[k], c) + 6 * TintChannel(c)
        /\ variant = "part" =>
              /\ evalLog[k].written.transparency = SHADOW_TRANSPARENCY
              /\ evalLog[k].written.material = evalLog[k].rayResult.Material

\* The pass of a tick has shaded an occluded sample of the pale surface,
\* whose three channels differ from each other and from the tint.
C22_Witness ==
    /\ pc = "flush" /\ scene = "pale"
    /\ \E k \in ShadowEntries : evalLog[k].rayResult.Color = SurfaceColor("pale")

\* The largest valid channel on the scale of HandedColor: 255 in the image
\* program, 1 in the part program.
ChannelMax == IF variant = "image" THEN 255 * 1000 ELSE 20 * 255

\* C23: for every surface colour, those with channels below 0 or above the
\* maximum included, every colour channel handed to the sink by the shadow,
\* the lit and the miss branch lies in the valid range, 0..255 in the image
\* program and 0..1 in the part program.
C23_HandedChannelsInRange ==
    \A k \in 1..Len(evalLog) :
        evalLog[k].wrote =>
            \A c \in 1..3 : /\ 0 <= HandedColor(evalLog[k])[c]
                             /\ HandedColor(evalLog[k])[c] <= ChannelMax
====
